---- MODULE Spec2Model ----
(***************************************************************************)
(* githubql_exporter: the OrganizationCollector of package collector       *)
(* (src/collector/organization.go).  One scrape is one call of Collect:    *)
(* for every configured organization, in order, one GraphQL query is       *)
(* executed and its repository nodes are flattened into Prometheus         *)
(* samples sent on the channel ch; after the loop three rate-limit samples *)
(* are sent.  A failed query is logged and ends the call.                  *)
(*                                                                         *)
(* Collect and Describe are modelled at the grain of their blocking        *)
(* points: the call of client.Query (QueryStart, then QueryOK or QueryFail *)
(* when it returns) and every single channel send (SendRepoSample,         *)
(* SendRateLimitSample, DescribeSend).                                     *)
(***************************************************************************)
EXTENDS Integers, Sequences, FiniteSets, TLC

VARIABLES
    organizations,  \* c.organizations, the configured list
    descs,          \* the eleven *prometheus.Desc fields of the collector
    pc,             \* position of Collect: idle, loop, query, emit, done, panic
    i,              \* index of the range loop over c.organizations (1-based)
    r,              \* index of the range loop over the nodes of query (1-based)
    f,              \* number of the next send of the loop body, or after the loop
    query,          \* var query organizationQuery of the current iteration
    rateLimit,      \* var rateLimit rateLimit of the current call
    err,            \* the error returned by client.Query ("" is nil)
    inflight,       \* indices of the organizations whose query has not returned
    ch,             \* samples sent on the channel handed to the current Collect
    logged,         \* records written to c.logger by the current Collect
    queried,        \* organization variables of the queries of the current call
    results,        \* query results returned to the current call, in order
    descCh,         \* descriptors sent on the channel of the last Describe
    dpc,            \* position of Describe: idle, send, returned
    rescrape        \* a Collect call has returned before the current one

vars == <<organizations, descs, pc, i, r, f, query, rateLimit, err, inflight,
          ch, logged, queried, results, descCh, dpc, rescrape>>

----------------------------------------------------------------------------
(* Bounds of the model.                                                    *)

MaxOrgs == 2
MaxRepos == 2

(* The n consecutive elements of the catalogue cat from position s on,     *)
(* read cyclically; and the lists of lo..hi consecutive elements from any  *)
(* position.                                                               *)
Window(cat, s, n) == [k \in 1..n |-> cat[((s + k - 2) % Len(cat)) + 1]]
Windows(cat, lo, hi) == {Window(cat, s, n) : n \in lo..hi, s \in 1..Len(cat)}

(* Organization identifiers that may be configured (ORGS, split on ",").   *)
OrgIds == <<"acme", "corp">>

(* The login the API answers with for organization(login: $organization):  *)
(* the organization's own spelling of its login, which need not be the     *)
(* string that was configured.                                             *)
LoginOf(organization) == IF organization = "corp" THEN "Corp" ELSE organization

(* Error messages client.Query may return (transport, deadline of the      *)
(* 5 second context, GraphQL errors).  NoErr is Go's nil error.            *)
NoErr == ""
QueryErrors == {"context deadline exceeded", "401 Unauthorized"}

(* An int64, or a float64 that holds an integer: the number                *)
(* hi * 1000000000 + lo, with 0 <= lo < 1000000000.                        *)
Int64(hi, lo) == [hi |-> hi, lo |-> lo]

(* githubql.DateTime wraps time.Time: seconds since the epoch (an int64)   *)
(* plus a nanosecond part.                                                 *)
Instant(s, n) == [sec |-> s, nsec |-> n]

(* time.Time{}, the zero time: 0001-01-01T00:00:00Z, which is              *)
(* -62135596800 seconds since the epoch.                                   *)
ZeroTime == Instant(Int64(-63, 864403200), 0)

(* Repository nodes the API may return.  Every field of a node has a       *)
(* value of its own, so that exchanging two fields is visible.             *)
RepoPool ==
    << [Name |-> "widget", DiskUsage |-> 42,
       CreatedAt |-> Instant(Int64(1, 400000000), 0),
       PushedAt |-> Instant(Int64(1, 500000000), 500),
       Stargazers |-> 11, Watchers |-> 12, Forks |-> 3,
       IssuesOpen |-> 5, IssuesClosed |-> 7,
       PullRequestsOpen |-> 1, PullRequestsClosed |-> 2,
       PullRequestsMerged |-> 4],
      [Name |-> "gadget", DiskUsage |-> 0,
       CreatedAt |-> Instant(Int64(0, 999999999), 999),
       PushedAt |-> Instant(Int64(1, 0), 0),
       Stargazers |-> 21, Watchers |-> 22, Forks |-> 23,
       IssuesOpen |-> 25, IssuesClosed |-> 27,
       PullRequestsOpen |-> 31, PullRequestsClosed |-> 32,
       PullRequestsMerged |-> 34],
      [Name |-> "gizmo", DiskUsage |-> 2000000000,
       CreatedAt |-> Instant(Int64(1, 600000000), 1),
       PushedAt |-> Instant(Int64(1, 700000000), 999999999),
       Stargazers |-> 41, Watchers |-> 42, Forks |-> 43,
       IssuesOpen |-> 45, IssuesClosed |-> 47,
       PullRequestsOpen |-> 51, PullRequestsClosed |-> 52,
       PullRequestsMerged |-> 54] >>

(* The repositories of an organization, in the order the API lists them:   *)
(* the first n of them, every organization with an order of its own.       *)
ReposOf(organization, n) ==
    Window(RepoPool, IF organization = "corp" THEN 2 ELSE 1, n)

(* Rate-limit snapshots the API may return.                                *)
RateLimitPool ==
    { [Limit |-> 5000, Remaining |-> 4999,
       ResetAt |-> Instant(Int64(1, 500007200), 250)] }

----------------------------------------------------------------------------
(* Types of the query.                                                     *)

(* The zero value of rateLimit ("var rateLimit rateLimit"): its ResetAt    *)
(* is the zero time, not the epoch.                                        *)
ZeroRateLimit == [Limit |-> 0, Remaining |-> 0, ResetAt |-> ZeroTime]

(* The zero value of organizationQuery ("var query organizationQuery").    *)
ZeroQuery == [Login |-> "", Nodes |-> <<>>, RateLimit |-> ZeroRateLimit]

(* The answers a successful client.Query for an organization may decode    *)
(* into query: the first nodes of the organization, at most MaxRepos (the  *)
(* query asks for the first 100), and a rate-limit snapshot, or the zero   *)
(* snapshot when the answer's rateLimit is null.                           *)
QueryResults(organization) ==
    [Login : {LoginOf(organization)},
     Nodes : {ReposOf(organization, n) : n \in 0..MaxRepos},
     RateLimit : RateLimitPool \cup {ZeroRateLimit}]

----------------------------------------------------------------------------
(* Conversions.                                                            *)

(* time.Time.Unix(): whole seconds since the epoch, an int64; the          *)
(* nanosecond part is dropped.                                             *)
Unix(t) == t.sec

(* float64(x) of a githubql.Int (an int32): every int32 is a float64, so   *)
(* the conversion keeps the number.                                        *)
Float64(x) == Int64(x \div 1000000000, x % 1000000000)

(* float64(x) of an int64: exact below 2^53, which holds every instant of  *)
(* the model, the zero time included.                                      *)
Float64OfInt64(x) == x

----------------------------------------------------------------------------
(* Descriptors.                                                            *)

namespace == "github"

(* prometheus.BuildFQName: the non-empty parts joined by "_".              *)
BuildFQName(ns, subsystem, name) == ns \o "_" \o subsystem \o "_" \o name

(* prometheus.NewDesc(fqName, help, variableLabels, nil).                  *)
NewDesc(fqName, help, variableLabels) ==
    [fqName |-> fqName, help |-> help, variableLabels |-> variableLabels]

(* The descriptors NewOrganizationCollector creates, field by field.       *)
createdDesc ==
    NewDesc(BuildFQName(namespace, "repo", "created"),
            "Unix timestamp of when the repo was created",
            <<"owner", "name">>)

diskUsageDesc ==
    NewDesc(BuildFQName(namespace, "repo", "disk_usage_bytes"),
            "Bytes of the repository used on disk",
            <<"owner", "name">>)

forksDesc ==
    NewDesc(BuildFQName(namespace, "repo", "forks"),
            "Number of forks of that repo",
            <<"owner", "name">>)

issuesDesc ==
    NewDesc(BuildFQName(namespace, "repo", "issues"),
            "Number of issues with a state of open or closed",
            <<"owner", "name", "state">>)

pullRequestsDesc ==
    NewDesc(BuildFQName(namespace, "repo", "pull_requests"),
            "Number of pull requests with a state of open, closed or merged",
            <<"owner", "name", "state">>)

pushedDesc ==
    NewDesc(BuildFQName(namespace, "repo", "pushed"),
            "Unix timestamp of then the repo was pushed to the last time",
            <<"onwer", "name">>)

stargazersDesc ==
    NewDesc(BuildFQName(namespace, "repo", "stargazers"),
            "Number of users that star the repo",
            <<"onwer", "name">>)

watchersDesc ==
    NewDesc(BuildFQName(namespace, "repo", "watchers"),
            "Number of users that watch the repo",
            <<"onwer", "name">>)

rateLimitDesc ==
    NewDesc(BuildFQName(namespace, "rate_limit", "limit"),
            "The rate limit",
            <<>>)

rateLimitRemainingDesc ==
    NewDesc(BuildFQName(namespace, "rate_limit", "remaining"),
            "The remaining requests left until hitting the rate limit",
            <<>>)

rateLimitResetDesc ==
    NewDesc(BuildFQName(namespace, "rate_limit", "reset_seconds"),
            "Unix timestamp when the rate limit will be reset",
            <<>>)

(* The collector NewOrganizationCollector returns: its descriptors.        *)
NewOrganizationCollector ==
    [created |-> createdDesc,
     diskUsage |-> diskUsageDesc,
     forks |-> forksDesc,
     issues |-> issuesDesc,
     pullRequests |-> pullRequestsDesc,
     pushed |-> pushedDesc,
     stargazers |-> stargazersDesc,
     watchers |-> watchersDesc,
     rateLimit |-> rateLimitDesc,
     rateLimitRemaining |-> rateLimitRemainingDesc,
     rateLimitReset |-> rateLimitResetDesc]

(* Variant of DescribeSends: the four descriptors of the first version of  *)
(* the collector only.                                                     *)
DescribeSendsFour(c) == << c.created, c.diskUsage, c.forks, c.issues >>

(* What Describe sends, in order.                                          *)
DescribeSends(c) ==
    << c.created, c.diskUsage, c.forks, c.issues, c.pullRequests,
       c.pushed, c.stargazers, c.watchers,
       c.rateLimit, c.rateLimitRemaining, c.rateLimitReset >>

----------------------------------------------------------------------------
(* Samples.                                                                *)

(* prometheus.MustNewConstMetric(desc, GaugeValue, value, labelValues...): *)
(* NewConstMetric fails when the number of label values differs from the   *)
(* number of variable labels of desc, and the Must form then panics.       *)
MustNewConstMetric(desc, value, labelValues) ==
    [desc |-> desc, valueType |-> "gauge", value |-> value,
     labelValues |-> labelValues,
     err |-> IF Len(labelValues) = Len(desc.variableLabels)
             THEN NoErr ELSE "inconsistent label cardinality"]

(* The eleven sends of the body of the loop over                           *)
(* query.Organization.Repositories.Nodes, one by one.                      *)
CreatedSample(c, q, repo) ==
    MustNewConstMetric(c.created, Float64OfInt64(Unix(repo.CreatedAt)),
                       <<q.Login, repo.Name>>)

DiskUsageSample(c, q, repo) ==
    MustNewConstMetric(c.diskUsage, Float64(repo.DiskUsage),
                       <<q.Login, repo.Name>>)

ForksSample(c, q, repo) ==
    MustNewConstMetric(c.forks, Float64(repo.Forks),
                       <<q.Login, repo.Name>>)

IssuesOpenSample(c, q, repo) ==
    MustNewConstMetric(c.issues, Float64(repo.IssuesOpen),
                       <<q.Login, repo.Name, "open">>)

(* Variant of IssuesClosedSample: the state is not passed as a label value. *)
IssuesClosedSampleNoState(c, q, repo) ==
    MustNewConstMetric(c.issues, Float64(repo.IssuesClosed),
                       <<q.Login, repo.Name>>)

IssuesClosedSample(c, q, repo) ==
    MustNewConstMetric(c.issues, Float64(repo.IssuesClosed),
                       <<q.Login, repo.Name, "closed">>)

PullRequestsOpenSample(c, q, repo) ==
    MustNewConstMetric(c.pullRequests, Float64(repo.PullRequestsOpen),
                       <<q.Login, repo.Name, "open">>)

PullRequestsClosedSample(c, q, repo) ==
    MustNewConstMetric(c.pullRequests, Float64(repo.PullRequestsClosed),
                       <<q.Login, repo.Name, "closed">>)

PullRequestsMergedSample(c, q, repo) ==
    MustNewConstMetric(c.pullRequests, Float64(repo.PullRequestsMerged),
                       <<q.Login, repo.Name, "merged">>)

(* Variant of PushedSample: the created instant is sent as the pushed one. *)
PushedSampleOfCreated(c, q, repo) ==
    MustNewConstMetric(c.pushed, Float64OfInt64(Unix(repo.CreatedAt)),
                       <<q.Login, repo.Name>>)

PushedSample(c, q, repo) ==
    MustNewConstMetric(c.pushed, Float64OfInt64(Unix(repo.PushedAt)),
                       <<q.Login, repo.Name>>)

StargazersSample(c, q, repo) ==
    MustNewConstMetric(c.stargazers, Float64(repo.Stargazers),
                       <<q.Login, repo.Name>>)

WatchersSample(c, q, repo) ==
    MustNewConstMetric(c.watchers, Float64(repo.Watchers),
                       <<q.Login, repo.Name>>)

(* Variant of RepoSamples: the pushed instant is sent right after the      *)
(* created instant.                                                        *)
RepoSamplesPushedSecond(c, q, repo) ==
    << CreatedSample(c, q, repo),
       PushedSample(c, q, repo),
       DiskUsageSample(c, q, repo),
       ForksSample(c, q, repo),
       IssuesOpenSample(c, q, repo),
       IssuesClosedSample(c, q, repo),
       PullRequestsOpenSample(c, q, repo),
       PullRequestsClosedSample(c, q, repo),
       PullRequestsMergedSample(c, q, repo),
       StargazersSample(c, q, repo),
       WatchersSample(c, q, repo) >>

(* The body of the loop: the samples of one repository, in the order they  *)
(* are sent.                                                               *)
RepoSamples(c, q, repo) ==
    << CreatedSample(c, q, repo),
       DiskUsageSample(c, q, repo),
       ForksSample(c, q, repo),
       IssuesOpenSample(c, q, repo),
       IssuesClosedSample(c, q, repo),
       PullRequestsOpenSample(c, q, repo),
       PullRequestsClosedSample(c, q, repo),
       PullRequestsMergedSample(c, q, repo),
       PushedSample(c, q, repo),
       StargazersSample(c, q, repo),
       WatchersSample(c, q, repo) >>

(* The three sends after the loop over the organizations.                  *)
RateLimitSamples(c, rl) ==
    << MustNewConstMetric(c.rateLimit, Float64(rl.Limit), <<>>),
       MustNewConstMetric(c.rateLimitRemaining, Float64(rl.Remaining), <<>>),
       MustNewConstMetric(c.rateLimitReset, Float64OfInt64(Unix(rl.ResetAt)), <<>>) >>

(* Variant of WarnRecord: the error is not part of the record.             *)
WarnRecordNoErr(e) ==
    << "level", "warn",
       "msg", "failed to execute organization query successfully" >>

(* level.Warn(c.logger).Log("msg", ..., "err", err): the key/value pairs   *)
(* of the record, the level first.                                         *)
WarnRecord(e) ==
    << "level", "warn",
       "msg", "failed to execute organization query successfully",
       "err", e >>

----------------------------------------------------------------------------
(* The collector.                                                          *)

(* NewOrganizationCollector(logger, client, organizations): any list, the  *)
(* empty one included (main hands it strings.Split(c.Orgs, ",")).          *)
Init ==
    /\ organizations \in Windows(OrgIds, 0, MaxOrgs)
    /\ descs = NewOrganizationCollector
    /\ pc = "idle"
    /\ i = 0
    /\ r = 1
    /\ f = 1
    /\ query = ZeroQuery
    /\ rateLimit = ZeroRateLimit
    /\ err = NoErr
    /\ inflight = {}
    /\ ch = <<>>
    /\ logged = <<>>
    /\ queried = <<>>
    /\ results = <<>>
    /\ descCh = <<>>
    /\ dpc = "idle"
    /\ rescrape = FALSE

(* One send of Describe, the first one of a call on a fresh channel; the   *)
(* call returns after the last one.  The registry calls Describe when the  *)
(* collector is registered or unregistered, not during a scrape.           *)
DescribeSend ==
    /\ pc \in {"idle", "done"}
    /\ LET sent == IF dpc = "returned" THEN <<>> ELSE descCh
           sends == DescribeSends(descs)
       IN  /\ descCh' = Append(sent, sends[Len(sent) + 1])
           /\ dpc' = IF Len(sent) + 1 = Len(sends) THEN "returned" ELSE "send"
    /\ UNCHANGED <<organizations, descs, pc, i, r, f, query, rateLimit, err,
                   inflight, ch, logged, queried, results, rescrape>>

(* Variant of CollectBegin: rateLimit is a field of the collector that     *)
(* keeps the snapshot of the call before.                                  *)
CollectBeginStale ==
    /\ pc \in {"idle", "done"}
    /\ dpc # "send"
    /\ rescrape' = (pc = "done")
    /\ pc' = "loop"
    /\ i' = 1
    /\ r' = 1
    /\ f' = 1
    /\ query' = ZeroQuery
    /\ err' = NoErr
    /\ ch' = <<>>
    /\ logged' = <<>>
    /\ queried' = <<>>
    /\ results' = <<>>
    /\ descCh' = <<>>
    /\ dpc' = "idle"
    /\ UNCHANGED <<organizations, descs, inflight, rateLimit>>

(* The registry calls Collect with a fresh channel: var rateLimit, and     *)
(* the range loop starts at the first organization.                        *)
CollectBegin ==
    /\ pc \in {"idle", "done"}
    /\ dpc # "send"
    /\ rescrape' = (pc = "done")
    /\ pc' = "loop"
    /\ i' = 1
    /\ r' = 1
    /\ f' = 1
    /\ rateLimit' = ZeroRateLimit
    /\ query' = ZeroQuery
    /\ err' = NoErr
    /\ ch' = <<>>
    /\ logged' = <<>>
    /\ queried' = <<>>
    /\ results' = <<>>
    /\ descCh' = <<>>
    /\ dpc' = "idle"
    /\ UNCHANGED <<organizations, descs, inflight>>

(* Top of the loop body: var query, and client.Query is called with the    *)
(* organization as its variable.                                           *)
QueryStart ==
    /\ pc = "loop"
    /\ i <= Len(organizations)
    /\ pc' = "query"
    /\ query' = ZeroQuery
    /\ inflight' = inflight \cup {i}
    /\ queried' = Append(queried, organizations[i])
    /\ UNCHANGED <<organizations, descs, i, r, f, rateLimit, err, ch, logged,
                   results, descCh, dpc, rescrape>>

(* Variant of QueryFail: the failed organization is skipped (continue).    *)
QueryFailContinue(e) ==
    /\ pc = "query"
    /\ err' = e
    /\ inflight' = inflight \ {i}
    /\ logged' = Append(logged, WarnRecord(e))
    /\ pc' = "loop"
    /\ i' = i + 1
    /\ UNCHANGED <<organizations, descs, r, f, query, rateLimit, ch, queried,
                   results, descCh, dpc, rescrape>>

(* Variant of QueryFail: the failed query is tried again.                  *)
QueryFailRetry(e) ==
    /\ pc = "query"
    /\ err' = NoErr
    /\ inflight' = inflight \ {i}
    /\ logged' = Append(logged, WarnRecord(e))
    /\ pc' = "loop"
    /\ UNCHANGED <<organizations, descs, i, r, f, query, rateLimit, ch,
                   queried, results, descCh, dpc, rescrape>>

(* client.Query returns an error: one warning, and Collect returns.        *)
QueryFail(e) ==
    /\ pc = "query"
    /\ err' = e
    /\ inflight' = inflight \ {i}
    /\ logged' = Append(logged, WarnRecord(e))
    /\ pc' = "done"
    /\ UNCHANGED <<organizations, descs, i, r, f, query, rateLimit, ch,
                   queried, results, descCh, dpc, rescrape>>

(* Variant of QueryOK: the snapshot of the first organization is kept.     *)
QueryOKFirstWins(res) ==
    /\ pc = "query"
    /\ inflight' = inflight \ {i}
    /\ query' = res
    /\ results' = Append(results, res)
    /\ rateLimit' = IF i = 1 THEN res.RateLimit ELSE rateLimit
    /\ r' = 1
    /\ f' = 1
    /\ pc' = IF res.Nodes = <<>> THEN "loop" ELSE "emit"
    /\ i' = IF res.Nodes = <<>> THEN i + 1 ELSE i
    /\ UNCHANGED <<organizations, descs, err, ch, logged, queried, descCh,
                   dpc, rescrape>>

(* client.Query returns nil: query holds the answer;                       *)
(* rateLimit = query.RateLimit; the loop over the nodes begins, and with   *)
(* no node the next organization is next.                                  *)
QueryOK(res) ==
    /\ pc = "query"
    /\ inflight' = inflight \ {i}
    /\ query' = res
    /\ results' = Append(results, res)
    /\ rateLimit' = res.RateLimit
    /\ r' = 1
    /\ f' = 1
    /\ pc' = IF res.Nodes = <<>> THEN "loop" ELSE "emit"
    /\ i' = IF res.Nodes = <<>> THEN i + 1 ELSE i
    /\ UNCHANGED <<organizations, descs, err, ch, logged, queried, descCh,
                   dpc, rescrape>>

(* One send of the loop body for node r: the sample is built (which        *)
(* panics when it cannot be) and sent; after the last send of the body the *)
(* next node, and after the last node the next organization, is next.      *)
SendRepoSample ==
    /\ pc = "emit"
    /\ LET body == RepoSamples(descs, query, query.Nodes[r])
           sample == body[f]
       IN  IF sample.err # NoErr
           THEN /\ pc' = "panic"
                /\ UNCHANGED <<i, r, f, ch>>
           ELSE /\ ch' = Append(ch, sample)
                /\ IF f < Len(body)
                   THEN /\ f' = f + 1
                        /\ UNCHANGED <<pc, i, r>>
                   ELSE /\ f' = 1
                        /\ IF r < Len(query.Nodes)
                           THEN /\ r' = r + 1
                                /\ UNCHANGED <<pc, i>>
                           ELSE /\ r' = 1
                                /\ pc' = "loop"
                                /\ i' = i + 1
    /\ UNCHANGED <<organizations, descs, query, rateLimit, err, inflight,
                   logged, queried, results, descCh, dpc, rescrape>>

(* One of the three sends after the last organization; Collect returns     *)
(* after the third.                                                        *)
SendRateLimitSample ==
    /\ pc = "loop"
    /\ i > Len(organizations)
    /\ LET sends == RateLimitSamples(descs, rateLimit)
           sample == sends[f]
       IN  IF sample.err # NoErr
           THEN /\ pc' = "panic"
                /\ UNCHANGED <<f, ch>>
           ELSE /\ ch' = Append(ch, sample)
                /\ f' = IF f < Len(sends) THEN f + 1 ELSE 1
                /\ pc' = IF f < Len(sends) THEN "loop" ELSE "done"
    /\ UNCHANGED <<organizations, descs, i, r, query, rateLimit, err, inflight,
                   logged, queried, results, descCh, dpc, rescrape>>

(* The answers the query in flight may return.                             *)
Answers ==
    IF i \in DOMAIN organizations THEN QueryResults(organizations[i]) ELSE {}

Next ==
    \/ DescribeSend
    \/ CollectBegin
    \/ QueryStart
    \/ \E e \in QueryErrors : QueryFail(e)
    \/ \E res \in Answers : QueryOK(res)
    \/ SendRepoSample
    \/ SendRateLimitSample

Spec == Init /\ [][Next]_vars

----------------------------------------------------------------------------
(* Vocabulary of the properties.                                           *)

Range(seq) == {seq[k] : k \in DOMAIN seq}

(* The whole number n as a sample value.                                   *)
Number(n) == [hi |-> n \div 1000000000, lo |-> n % 1000000000]

(* The current Collect has returned after a failed, or after no failed,    *)
(* query.                                                                  *)
Failed == pc = "done" /\ err # NoErr
Succeeded == pc = "done" /\ err = NoErr

(* What the sink sees of a sample: family name, value, label values.       *)
View(s) == [name |-> s.desc.fqName, value |-> s.value, labels |-> s.labelValues]
Views(samples) == [k \in 1..Len(samples) |-> View(samples[k])]

RateLimitNames ==
    {"github_rate_limit_limit", "github_rate_limit_remaining",
     "github_rate_limit_reset_seconds"}
IsRateLimitSample(s) == s.desc.fqName \in RateLimitNames
IsRepoSample(s) == ~IsRateLimitSample(s)

(* The repository samples and the rate-limit samples sent so far.          *)
RepoSent == SelectSeq(ch, IsRepoSample)
RateLimitSent == SelectSeq(ch, IsRateLimitSample)

(* The (login, repository name) pairs of a sequence of query results, in   *)
(* the order of the results and of their nodes.                            *)
RECURSIVE Owners(_)
Owners(rs) ==
    IF rs = <<>> THEN <<>>
    ELSE [k \in 1..Len(Head(rs).Nodes) |->
             <<Head(rs).Login, Head(rs).Nodes[k].Name>>] \o Owners(Tail(rs))

(* The samples the specification asks for one repository node.             *)
ExpectedOf(login, repo) ==
    << [name |-> "github_repo_created", value |-> repo.CreatedAt.sec,
        labels |-> <<login, repo.Name>>],
       [name |-> "github_repo_disk_usage_bytes", value |-> Number(repo.DiskUsage),
        labels |-> <<login, repo.Name>>],
       [name |-> "github_repo_forks", value |-> Number(repo.Forks),
        labels |-> <<login, repo.Name>>],
       [name |-> "github_repo_issues", value |-> Number(repo.IssuesOpen),
        labels |-> <<login, repo.Name, "open">>],
       [name |-> "github_repo_issues", value |-> Number(repo.IssuesClosed),
        labels |-> <<login, repo.Name, "closed">>],
       [name |-> "github_repo_pull_requests",
        value |-> Number(repo.PullRequestsOpen),
        labels |-> <<login, repo.Name, "open">>],
       [name |-> "github_repo_pull_requests",
        value |-> Number(repo.PullRequestsClosed),
        labels |-> <<login, repo.Name, "closed">>],
       [name |-> "github_repo_pull_requests",
        value |-> Number(repo.PullRequestsMerged),
        labels |-> <<login, repo.Name, "merged">>],
       [name |-> "github_repo_pushed", value |-> repo.PushedAt.sec,
        labels |-> <<login, repo.Name>>],
       [name |-> "github_repo_stargazers", value |-> Number(repo.Stargazers),
        labels |-> <<login, repo.Name>>],
       [name |-> "github_repo_watchers", value |-> Number(repo.Watchers),
        labels |-> <<login, repo.Name>>] >>

RECURSIVE ExpectedNodes(_, _)
ExpectedNodes(login, nodes) ==
    IF nodes = <<>> THEN <<>>
    ELSE ExpectedOf(login, Head(nodes)) \o ExpectedNodes(login, Tail(nodes))

RECURSIVE ExpectedResults(_)
ExpectedResults(rs) ==
    IF rs = <<>> THEN <<>>
    ELSE ExpectedNodes(Head(rs).Login, Head(rs).Nodes) \o ExpectedResults(Tail(rs))

(* The rate-limit samples the specification asks for a snapshot.           *)
ExpectedRateLimit(snapshot) ==
    << [name |-> "github_rate_limit_limit",
        value |-> Number(snapshot.Limit), labels |-> <<>>],
       [name |-> "github_rate_limit_remaining",
        value |-> Number(snapshot.Remaining), labels |-> <<>>],
       [name |-> "github_rate_limit_reset_seconds",
        value |-> snapshot.ResetAt.sec, labels |-> <<>>] >>

(* The family and state of the k-th sample of a repository.                *)
FieldOrder ==
    << <<"github_repo_created", "">>,
       <<"github_repo_disk_usage_bytes", "">>,
       <<"github_repo_forks", "">>,
       <<"github_repo_issues", "open">>,
       <<"github_repo_issues", "closed">>,
       <<"github_repo_pull_requests", "open">>,
       <<"github_repo_pull_requests", "closed">>,
       <<"github_repo_pull_requests", "merged">>,
       <<"github_repo_pushed", "">>,
       <<"github_repo_stargazers", "">>,
       <<"github_repo_watchers", "">> >>

SamplesPerRepo == Len(FieldOrder)

FieldOf(s) ==
    <<s.desc.fqName, IF Len(s.labelValues) >= 3 THEN s.labelValues[3] ELSE "">>

(* The loop over the nodes of the last result is still running.            *)
InNodesLoop == pc = "emit"

(* Number of label names each family is to declare.                        *)
DeclaredArity ==
    [created |-> 2, diskUsage |-> 2, forks |-> 2, issues |-> 3,
     pullRequests |-> 3, pushed |-> 2, stargazers |-> 2, watchers |-> 2,
     rateLimit |-> 0, rateLimitRemaining |-> 0, rateLimitReset |-> 0]

(* The key/value pairs of a log record.                                    *)
Keys(rec) == [k \in 1..(Len(rec) \div 2) |-> rec[2 * k - 1]]
Values(rec) == [k \in 1..(Len(rec) \div 2) |-> rec[2 * k]]
HasPair(rec, key, val) ==
    \E k \in 1..(Len(rec) \div 2) : rec[2 * k - 1] = key /\ rec[2 * k] = val

----------------------------------------------------------------------------
(* Properties.                                                             *)

(* C1 -- fail-fast scrape: when the query of organization k is the one     *)
(* that fails, the sink has received the samples of every repository of    *)
(* organizations 1..k-1 and nothing else: no sample of organization k or   *)
(* of a later one, and none of the three rate-limit samples.               *)
FailFastScrape ==
    Failed =>
        LET k == Len(queried)
            owners == Owners(results)
        IN  /\ k \in 1..Len(organizations)
            /\ Len(results) = k - 1
            /\ Len(ch) = SamplesPerRepo * Len(owners)
            /\ \A p \in 1..Len(ch) :
                   /\ IsRepoSample(ch[p])
                   /\ SubSeq(ch[p].labelValues, 1, 2)
                        = owners[((p - 1) \div SamplesPerRepo) + 1]
            /\ RateLimitSent = <<>>

(* The second organization's query failed after the first organization's   *)
(* repositories were sent.                                                 *)
FailFastWitness ==
    Failed /\ Len(queried) = 2 /\ Len(results) = 1 /\ Len(ch) >= SamplesPerRepo

(* C2 -- values and labels: every repository sample the sink has received  *)
(* is one the specification asks for a node of an answer of this call:     *)
(* the node's field as value (instants as epoch seconds, disk usage and    *)
(* counts unscaled) and the labels (login of the answer, repository name), *)
(* the state appended for issues and pull requests; and once the loop over *)
(* the nodes of an answer has run, the sink has received every sample      *)
(* asked for, eleven per node.                                             *)
SampleValuesAndLabels ==
    LET sent == Views(RepoSent)
        expected == ExpectedResults(results)
    IN  /\ Len(sent) <= Len(expected)
        /\ Range(sent) \subseteq Range(expected)
        /\ ~InNodesLoop =>
               /\ Len(sent) = Len(expected)
               /\ Range(sent) = Range(expected)

(* An organization whose login differs from its configured identifier has  *)
(* had a repository with a sub-second push instant sent.                   *)
SampleValuesWitness ==
    /\ pc = "loop"
    /\ \E k \in 1..Len(results) :
           /\ results[k].Login # organizations[k]
           /\ \E n \in 1..Len(results[k].Nodes) :
                  results[k].Nodes[n].PushedAt.nsec # 0
    /\ RepoSent # <<>>

(* C3 -- emission order: the organizations are processed in configured     *)
(* order, their repositories in the order of the answer, the eleven        *)
(* samples of a repository in the fixed order with no sample of another    *)
(* repository in between, and the rate-limit samples after every           *)
(* repository sample.                                                      *)
EmissionOrder ==
    LET owners == Owners(results)
        sent == RepoSent
        rate == RateLimitSent
    IN  /\ Len(sent) <= SamplesPerRepo * Len(owners)
        /\ ~InNodesLoop => Len(sent) = SamplesPerRepo * Len(owners)
        /\ \A p \in 1..Len(sent) :
               /\ FieldOf(sent[p]) = FieldOrder[((p - 1) % SamplesPerRepo) + 1]
               /\ SubSeq(sent[p].labelValues, 1, 2)
                    = owners[((p - 1) \div SamplesPerRepo) + 1]
        /\ \A k \in 1..Len(results) :
               results[k].Login = LoginOf(organizations[k])
        /\ ch = sent \o rate
        /\ rate # <<>> =>
               /\ Len(results) = Len(organizations)
               /\ Len(sent) = SamplesPerRepo * Len(owners)

(* A scrape of two organizations with two different repositories each has  *)
(* completed.                                                              *)
EmissionOrderWitness ==
    /\ Succeeded
    /\ Len(results) = 2
    /\ \A k \in 1..2 : /\ Len(results[k].Nodes) = 2
                       /\ results[k].Nodes[1] # results[k].Nodes[2]
    /\ results[1].Login # results[2].Login
    /\ Len(RateLimitSent) = 3

(* C4 -- rate-limit last-write-wins: when every query succeeded, the last  *)
(* three samples are the only rate-limit samples, they carry no label, and *)
(* their values are limit, remaining and reset (epoch seconds) of the      *)
(* snapshot returned by the last configured organization's query.          *)
RateLimitLastWriteWins ==
    Succeeded =>
        LET rate == RateLimitSent
        IN  /\ Len(results) = Len(organizations)
            /\ Len(rate) = 3
            /\ SubSeq(ch, Len(ch) - 2, Len(ch)) = rate
            /\ \A k \in 1..3 : rate[k].labelValues = <<>>
            /\ organizations # <<>> =>
                   Views(rate) =
                       ExpectedRateLimit(results[Len(organizations)].RateLimit)

(* A scrape has completed in which the first organization's snapshot       *)
(* differs from the last one's.                                            *)
RateLimitWitness ==
    /\ Succeeded
    /\ Len(results) = 2
    /\ results[1].RateLimit # results[2].RateLimit
    /\ results[2].RateLimit.ResetAt.nsec # 0

(* C5 as stated -- on a query failure exactly one record is written, at    *)
(* warning level, carrying the identifier of the organization whose query  *)
(* failed and the error message, and Collect returns without an error to   *)
(* the sink.                                                               *)
WarningCarriesOrganization ==
    Failed =>
        /\ Len(logged) = 1
        /\ HasPair(logged[1], "level", "warn")
        /\ HasPair(logged[1], "err", err)
        /\ organizations[Len(queried)] \in Range(Values(logged[1]))
        /\ \A p \in 1..Len(ch) : ch[p].err = NoErr

(* C5 as amended -- on a query failure exactly one record is written, at   *)
(* warning level, whose only pairs are the level, the fixed message and    *)
(* the error returned by the query: the organization is not part of the    *)
(* record.  Collect returns without an error to the sink, and a call       *)
(* without a failure writes nothing.                                       *)
WarningCarriesError ==
    /\ Failed =>
        /\ Len(logged) = 1
        /\ Keys(logged[1]) = <<"level", "msg", "err">>
        /\ Values(logged[1]) =
              <<"warn", "failed to execute organization query successfully", err>>
        /\ err \in QueryErrors
        /\ \A p \in 1..Len(ch) : ch[p].err = NoErr
    /\ ~Failed => logged = <<>>
    /\ pc # "panic"

(* The second organization's query failed, in a scrape that followed an    *)
(* earlier one.                                                            *)
WarningWitness ==
    Failed /\ Len(queried) = 2 /\ Len(logged) = 1 /\ rescrape

(* C6 -- label arity: every sample sent has as many label values as its    *)
(* descriptor declares label names, and every descriptor declares 2 names  *)
(* (3 for issues and pull requests, 0 for the rate-limit gauges); no       *)
(* sample fails to be built.                                               *)
LabelArity ==
    /\ \A d \in DOMAIN descs :
           Len(descs[d].variableLabels) = DeclaredArity[d]
    /\ \A p \in 1..Len(ch) :
           /\ Len(ch[p].labelValues) = Len(ch[p].desc.variableLabels)
           /\ \E d \in DOMAIN descs :
                  /\ ch[p].desc = descs[d]
                  /\ Len(ch[p].labelValues) = DeclaredArity[d]
    /\ pc # "panic"

(* Samples of all eleven families have been sent.                          *)
LabelArityWitness ==
    /\ Succeeded
    /\ {ch[p].desc : p \in 1..Len(ch)} = Range(DescribeSends(descs))

(* C7 -- no cross-scrape state: a Collect call starts from the zero        *)
(* rate-limit snapshot and an empty result, and what it has sent is at     *)
(* every moment given by the query results returned to this call: the      *)
(* samples of these results up to the node and field the call has come to, *)
(* followed, once every query has succeeded, by the rate-limit samples of  *)
(* the last result (of the zero snapshot when no organization is           *)
(* configured).                                                            *)
NoCrossScrapeState ==
    LET sent == Views(RepoSent)
        rate == Views(RateLimitSent)
        nodes == Len(Owners(results))
        snapshot == IF results = <<>> THEN ZeroRateLimit
                    ELSE results[Len(results)].RateLimit
    IN  /\ (pc = "loop" /\ i = 1) => query = ZeroQuery
        /\ pc \in {"query", "emit"} => Len(queried) = i
        /\ Len(sent) =
              (IF InNodesLoop
               THEN SamplesPerRepo * (nodes - Len(query.Nodes) + r - 1) + f - 1
               ELSE SamplesPerRepo * nodes)
        /\ sent = SubSeq(ExpectedResults(results), 1, Len(sent))
        /\ rate = SubSeq(ExpectedRateLimit(snapshot), 1, Len(rate))
        /\ rate # <<>> => (err = NoErr /\ Len(results) = Len(organizations))
        /\ rateLimit = snapshot

(* A scrape has begun after an earlier one returned.                       *)
NoCrossScrapeWitness ==
    rescrape /\ pc = "loop" /\ i = 1

(* C8 -- Describe: a Describe call that has returned has sent exactly the  *)
(* eleven descriptors created at construction, each once; its sends issue  *)
(* no query and send no sample; no step of the collector changes a         *)
(* descriptor.                                                             *)
DescribeFixedSet ==
    [][ /\ descs' = descs
        /\ descs' = NewOrganizationCollector
        /\ (descCh' # descCh /\ descCh' # <<>>) =>
               /\ queried' = queried
               /\ inflight' = inflight
               /\ ch' = ch
        /\ dpc' = "returned" =>
               /\ Len(descCh') = 11
               /\ Range(descCh') = Range(descs')
               /\ Cardinality(Range(descCh')) = 11 ]_vars

(* Describe has returned after a failed scrape.                            *)
DescribeWitness ==
    dpc = "returned" /\ Failed

(* C9 -- query sequencing without retry: the organizations queried in one  *)
(* call are a prefix of the configured list, at most one query is in       *)
(* flight, a query is started only when every sample of the organizations  *)
(* before it has been sent, and after a failed query the call has          *)
(* returned.                                                               *)
QuerySequencing ==
    /\ Len(queried) <= Len(organizations)
    /\ queried = SubSeq(organizations, 1, Len(queried))
    /\ Cardinality(inflight) <= 1
    /\ inflight = (IF pc = "query" THEN {Len(queried)} ELSE {})
    /\ pc = "query" =>
           /\ Len(results) = Len(queried) - 1
           /\ Len(ch) = SamplesPerRepo * Len(Owners(results))
    /\ err # NoErr => (pc = "done" /\ Len(results) = Len(queried) - 1)

(* The second organization's query is in flight and the first's samples    *)
(* have been sent.                                                         *)
QuerySequencingWitness ==
    pc = "query" /\ Len(queried) = 2 /\ Len(ch) >= SamplesPerRepo

(* C10 -- label-name consistency: every per-repository sample exposes the  *)
(* organization login under the label name owner and the repository name   *)
(* under the label name name.                                              *)
OwnerNameLabels ==
    \A p \in 1..Len(ch) :
        IsRepoSample(ch[p]) =>
            SubSeq(ch[p].desc.variableLabels, 1, 2) = <<"owner", "name">>

====
